---- MODULE Spec2Model ----
(***************************************************************************)
(* Lab_instruments.py: the instrument wrappers KEI2230G (3-channel DC      *)
(* power supply), KEI2600B (2-channel source-measure unit) and AFG3000     *)
(* (function generator).  The model follows one wrapper object of any of   *)
(* the three classes from its construction on: objects share no state.     *)
(* Every method is one action: Python runs it to completion on one thread. *)
(* The transport (self.device) is the environment: each of its calls       *)
(* either returns or raises, which the input `fault` chooses.              *)
(***************************************************************************)
EXTENDS Integers, Sequences, FiniteSets, TLC

VARIABLES
    cls,          \* the class of the object: "KEI2230G", "KEI2600B" or "AFG3000"
    self_safety,  \* self.safety, a Python list of 0/1 flags (AFG3000 has none: the empty list)
    limited,      \* history: the valid channels c for which a limit-setting call returned normally
    last          \* the last method call: its arguments, its outcome and the transport calls it made

vars == <<cls, self_safety, limited, last>>

\* ---------------------------------------------------------------- bounds
ChanSlack == 2    \* channel arguments range over (1 - ChanSlack)..(N + ChanSlack)
MaxVal == 2       \* voltage, current and limit arguments of the KEI classes range over 1..MaxVal

\* ----------------------------------------------------- Python semantics
\* str(n) of a Python int
PyStr(n) == ToString(n)

\* list[i]: i in -len..len-1, a negative i counts from the end; otherwise IndexError
PyInRange(s, i) == -Len(s) <= i /\ i < Len(s)
PyPos(s, i) == IF i < 0 THEN i + Len(s) + 1 ELSE i + 1
PyGet(s, i) == s[PyPos(s, i)]
PySet(s, i, v) == [s EXCEPT ![PyPos(s, i)] = v]

\* ------------------------------------------------------------ transport
Wr(c) == [kind |-> "write", cmd |-> c]
Qu(c) == [kind |-> "query", cmd |-> c]
Cl == [kind |-> "clear", cmd |-> ""]

\* The calls of `cmds` that are invoked when the fault-th one raises.
Failed(cmds, fault) == fault \in 1..Len(cmds)
Attempt(cmds, fault) == IF Failed(cmds, fault) THEN SubSeq(cmds, 1, fault) ELSE cmds

\* float(reply) of a query reply: the number, or ValueError
Replies == {PyStr(1), "?"}
IsNumber(r) == \E n \in 0..9 : PyStr(n) = r
PyFloat(r) == CHOOSE n \in 0..9 : PyStr(n) = r

\* The outcome of a method: what it returns or raises, the value it returns,
\* the transport calls it invoked, and self.safety afterwards.
Out(ret, val, calls, safety) == [ret |-> ret, val |-> val, calls |-> calls, safety |-> safety]
Raise(exc, calls, safety) == Out(exc, <<>>, calls, safety)
Rejected == "-1"

\* ------------------------------------------------------------- KEI2230G
KEI2230G_init == <<0, 0, 0>>

\* Faulty variant: switching the output off re-locks every channel.
KEI2230G_set_output_state_Relock(safety, ONorOFF, fault) ==
    LET cmds == <<Wr("OUTP " \o ONorOFF)>>
    IN  IF Failed(cmds, fault) THEN Raise("TransportError", Attempt(cmds, fault), safety)
        ELSE Out("None", <<>>, cmds, IF ONorOFF = "OFF" THEN <<0, 0, 0>> ELSE safety)

KEI2230G_set_output_state(safety, ONorOFF, fault) ==
    LET cmds == <<Wr("OUTP " \o ONorOFF)>>
    IN  IF Failed(cmds, fault) THEN Raise("TransportError", Attempt(cmds, fault), safety)
        ELSE Out("None", <<>>, cmds, safety)

\* The body shared by set_voltage and set_current: `what` is the SCPI node.
KEI2230G_set_source(safety, what, channel, value, unit, fault) ==
    LET cmds == <<Wr("INSTrument:NSELect " \o PyStr(channel)),
                  Wr("SOURce:" \o what \o ":LEVel:IMMediate:AMPLitude " \o PyStr(value) \o unit)>>
    IN  IF ~PyInRange(safety, channel - 1) THEN Raise("IndexError", <<>>, safety)
        ELSE IF PyGet(safety, channel - 1) = 0 THEN Out(Rejected, <<>>, <<>>, safety)
        ELSE IF Failed(cmds, fault) THEN Raise("TransportError", Attempt(cmds, fault), safety)
        ELSE Out("None", <<>>, cmds, safety)

KEI2230G_set_voltage(safety, channel, voltage, unit, fault) ==
    KEI2230G_set_source(safety, "VOLTage", channel, voltage, unit, fault)

KEI2230G_set_current(safety, channel, current, unit, fault) ==
    KEI2230G_set_source(safety, "CURRent", channel, current, unit, fault)

\* Faulty variant: the flag is set before the commands are written.
KEI2230G_set_voltage_limit_ArmFirst(safety, channel, voltage_lim, fault) ==
    LET cmds == <<Wr("INSTrument:NSELect " \o PyStr(channel)),
                  Wr("SOURce:VOLTage:LIMit:LEVel " \o PyStr(voltage_lim))>>
    IN  IF ~PyInRange(safety, channel - 1) THEN Raise("IndexError", <<>>, safety)
        ELSE IF Failed(cmds, fault)
        THEN Raise("TransportError", Attempt(cmds, fault), PySet(safety, channel - 1, 1))
        ELSE Out("None", <<>>, cmds, PySet(safety, channel - 1, 1))

KEI2230G_set_voltage_limit(safety, channel, voltage_lim, fault) ==
    LET cmds == <<Wr("INSTrument:NSELect " \o PyStr(channel)),
                  Wr("SOURce:VOLTage:LIMit:LEVel " \o PyStr(voltage_lim))>>
    IN  IF Failed(cmds, fault) THEN Raise("TransportError", Attempt(cmds, fault), safety)
        ELSE IF ~PyInRange(safety, channel - 1) THEN Raise("IndexError", cmds, safety)
        ELSE Out("None", <<>>, cmds, PySet(safety, channel - 1, 1))

\* The body shared by get_voltage and get_current.
KEI2230G_measure(safety, what, channel, reply, fault) ==
    LET cmds == <<Qu("measure:SCALar:" \o what \o ":DC? CH" \o PyStr(channel))>>
    IN  IF Failed(cmds, fault) THEN Raise("TransportError", Attempt(cmds, fault), safety)
        ELSE IF ~IsNumber(reply) THEN Raise("ValueError", cmds, safety)
        ELSE Out("value", <<PyFloat(reply)>>, cmds, safety)

KEI2230G_get_voltage(safety, channel, reply, fault) ==
    KEI2230G_measure(safety, "voltage", channel, reply, fault)

KEI2230G_get_current(safety, channel, reply, fault) ==
    KEI2230G_measure(safety, "current", channel, reply, fault)

\* ------------------------------------------------------------- KEI2600B
KEI2600B_init == <<0, 0>>
ch_map == (1 :> "a") @@ (2 :> "b")
selected_ch(channel) == "smu" \o ch_map[channel]

\* Faulty variant: the output state is gated by the flag like a source setter.
KEI2600B_set_output_state_Gated(safety, channel, ONorOFF, fault) ==
    IF ~PyInRange(safety, channel - 1) THEN Raise("IndexError", <<>>, safety)
    ELSE IF PyGet(safety, channel - 1) = 0 THEN Out(Rejected, <<>>, <<>>, safety)
    ELSE IF channel \notin DOMAIN ch_map THEN Raise("KeyError", <<>>, safety)
    ELSE LET ch == selected_ch(channel)
             cmds == <<Wr(ch \o ".source.output=" \o ch \o ".OUTPUT_" \o ONorOFF)>>
         IN  IF Failed(cmds, fault) THEN Raise("TransportError", Attempt(cmds, fault), safety)
             ELSE Out("None", <<>>, cmds, safety)

KEI2600B_set_output_state(safety, channel, ONorOFF, fault) ==
    IF channel \notin DOMAIN ch_map THEN Raise("KeyError", <<>>, safety)
    ELSE LET ch == selected_ch(channel)
             cmds == <<Wr(ch \o ".source.output=" \o ch \o ".OUTPUT_" \o ONorOFF)>>
         IN  IF Failed(cmds, fault) THEN Raise("TransportError", Attempt(cmds, fault), safety)
             ELSE Out("None", <<>>, cmds, safety)

\* Faulty variant: the flag is read at index channel instead of channel - 1.
KEI2600B_set_voltage_OffByOne(safety, channel, voltage, fault) ==
    IF ~PyInRange(safety, channel) THEN Raise("IndexError", <<>>, safety)
    ELSE IF PyGet(safety, channel) = 0 THEN Out(Rejected, <<>>, <<>>, safety)
    ELSE IF channel \notin DOMAIN ch_map THEN Raise("KeyError", <<>>, safety)
    ELSE LET ch == selected_ch(channel)
             cmds == <<Wr(ch \o ".source.func = " \o ch \o ".OUTPUT_DCVOLTS"),
                       Wr(ch \o ".source.levelv = " \o PyStr(voltage)),
                       Wr("display." \o ch \o ".measure.func = display.MEASURE_DCAMPS")>>
         IN  IF Failed(cmds, fault) THEN Raise("TransportError", Attempt(cmds, fault), safety)
             ELSE Out("None", <<>>, cmds, safety)

KEI2600B_set_voltage(safety, channel, voltage, fault) ==
    IF ~PyInRange(safety, channel - 1) THEN Raise("IndexError", <<>>, safety)
    ELSE IF PyGet(safety, channel - 1) = 0 THEN Out(Rejected, <<>>, <<>>, safety)
    ELSE IF channel \notin DOMAIN ch_map THEN Raise("KeyError", <<>>, safety)
    ELSE LET ch == selected_ch(channel)
             cmds == <<Wr(ch \o ".source.func = " \o ch \o ".OUTPUT_DCVOLTS"),
                       Wr(ch \o ".source.levelv = " \o PyStr(voltage)),
                       Wr("display." \o ch \o ".measure.func = display.MEASURE_DCAMPS")>>
         IN  IF Failed(cmds, fault) THEN Raise("TransportError", Attempt(cmds, fault), safety)
             ELSE Out("None", <<>>, cmds, safety)

\* Faulty variant: the setter also switches the output on, a fourth write.
KEI2600B_set_current_OutputOn(safety, channel, current, fault) ==
    IF ~PyInRange(safety, channel - 1) THEN Raise("IndexError", <<>>, safety)
    ELSE IF PyGet(safety, channel - 1) = 0 THEN Out(Rejected, <<>>, <<>>, safety)
    ELSE IF channel \notin DOMAIN ch_map THEN Raise("KeyError", <<>>, safety)
    ELSE LET ch == selected_ch(channel)
             cmds == <<Wr(ch \o ".source.func = " \o ch \o ".OUTPUT_DCAMPS"),
                       Wr(ch \o ".source.leveli = " \o PyStr(current)),
                       Wr("display." \o ch \o ".measure.func = display.MEASURE_DCVOLTS"),
                       Wr(ch \o ".source.output=" \o ch \o ".OUTPUT_ON")>>
         IN  IF Failed(cmds, fault) THEN Raise("TransportError", Attempt(cmds, fault), safety)
             ELSE Out("None", <<>>, cmds, safety)

KEI2600B_set_current(safety, channel, current, fault) ==
    IF ~PyInRange(safety, channel - 1) THEN Raise("IndexError", <<>>, safety)
    ELSE IF PyGet(safety, channel - 1) = 0 THEN Out(Rejected, <<>>, <<>>, safety)
    ELSE IF channel \notin DOMAIN ch_map THEN Raise("KeyError", <<>>, safety)
    ELSE LET ch == selected_ch(channel)
             cmds == <<Wr(ch \o ".source.func = " \o ch \o ".OUTPUT_DCAMPS"),
                       Wr(ch \o ".source.leveli = " \o PyStr(current)),
                       Wr("display." \o ch \o ".measure.func = display.MEASURE_DCVOLTS")>>
         IN  IF Failed(cmds, fault) THEN Raise("TransportError", Attempt(cmds, fault), safety)
             ELSE Out("None", <<>>, cmds, safety)

KEI2600B_set_limit(safety, channel, vol_lim, cur_lim, fault) ==
    IF channel \notin DOMAIN ch_map THEN Raise("KeyError", <<>>, safety)
    ELSE LET ch == selected_ch(channel)
             cmds == <<Wr(ch \o ".source.limitv = " \o PyStr(vol_lim)),
                       Wr(ch \o ".source.limiti = " \o PyStr(cur_lim))>>
         IN  IF Failed(cmds, fault) THEN Raise("TransportError", Attempt(cmds, fault), safety)
             ELSE IF ~PyInRange(safety, channel - 1) THEN Raise("IndexError", cmds, safety)
             ELSE Out("None", <<>>, cmds, PySet(safety, channel - 1, 1))

KEI2600B_get_current_voltage(safety, channel, current, voltage, fault) ==
    IF channel \notin DOMAIN ch_map THEN Raise("KeyError", <<>>, safety)
    ELSE LET ch == selected_ch(channel)
             cmds == <<Wr("iReading, vReading = " \o ch \o ".measure.iv()"),
                       Qu("print(iReading)"),
                       Qu("print(vReading)")>>
         IN  IF Failed(cmds, fault) THEN Raise("TransportError", Attempt(cmds, fault), safety)
             ELSE IF ~IsNumber(current) \/ ~IsNumber(voltage) THEN Raise("ValueError", cmds, safety)
             ELSE Out("value", <<PyFloat(current), PyFloat(voltage)>>, cmds, safety)

KEI2600B_release_frontPanel(safety, fault) ==
    LET cmds == <<Cl>>
    IN  IF Failed(cmds, fault) THEN Raise("TransportError", Attempt(cmds, fault), safety)
        ELSE Out("None", <<>>, cmds, safety)

\* -------------------------------------------------------------- AFG3000
\* AFG3000 has no safety attribute: its outcomes carry the empty list.
\* A setter that returns what device.write returned has the outcome "value".
\* Voltages are Python ints; the bounds minV, maxV are given in tenths of a
\* volt so that the default maxV=2.5 is the integer 25.
DefaultMinV == 0
DefaultMaxV == 25
PresetMinV == 0
PresetMaxV == 50
control == ("Sine" :> "SINusoid") @@ ("Square" :> "SQUare") @@ ("Ramp" :> "RAMP") @@ ("Pulse" :> "PULSe")

\* What remains of a fault after n transport calls returned.
Later(fault, n) == IF fault > n THEN fault - n ELSE 0

AFG3000_set_output_state(channel, ONorOFF, fault) ==
    LET cmds == <<Wr("OUTPUT" \o PyStr(channel) \o ":STATE " \o ONorOFF)>>
    IN  IF Failed(cmds, fault) THEN Raise("TransportError", Attempt(cmds, fault), <<>>)
        ELSE Out("None", <<>>, cmds, <<>>)

\* Faulty variant: the lower bound minV is not checked.
AFG3000_set_output_vpp_NoLowerBound(channel, amplitude, minV, maxV, fault) ==
    LET cmds == <<Wr("SOURce" \o PyStr(channel) \o ":VOLTage:LEVel:IMMediate:AMPLitude "
                     \o PyStr(amplitude) \o "VPP")>>
    IN  IF amplitude * 10 > maxV THEN Out(Rejected, <<>>, <<>>, <<>>)
        ELSE IF Failed(cmds, fault) THEN Raise("TransportError", Attempt(cmds, fault), <<>>)
        ELSE Out("value", <<>>, cmds, <<>>)

AFG3000_set_output_vpp(channel, amplitude, minV, maxV, fault) ==
    LET cmds == <<Wr("SOURce" \o PyStr(channel) \o ":VOLTage:LEVel:IMMediate:AMPLitude "
                     \o PyStr(amplitude) \o "VPP")>>
    IN  IF amplitude * 10 > maxV \/ amplitude * 10 < minV THEN Out(Rejected, <<>>, <<>>, <<>>)
        ELSE IF Failed(cmds, fault) THEN Raise("TransportError", Attempt(cmds, fault), <<>>)
        ELSE Out("value", <<>>, cmds, <<>>)

AFG3000_set_output_offset(channel, offset, minV, maxV, fault) ==
    LET cmds == <<Wr("SOURce" \o PyStr(channel) \o ":VOLTage:LEVel:IMMediate:OFFSet "
                     \o PyStr(offset) \o "V")>>
    IN  IF offset * 10 > maxV \/ offset * 10 < minV THEN Out(Rejected, <<>>, <<>>, <<>>)
        ELSE IF Failed(cmds, fault) THEN Raise("TransportError", Attempt(cmds, fault), <<>>)
        ELSE Out("value", <<>>, cmds, <<>>)

AFG3000_set_output_freq(channel, freq, unit, fault) ==
    LET cmds == <<Wr("SOURce" \o PyStr(channel) \o ":FREQuency:FIXed " \o PyStr(freq) \o unit)>>
    IN  IF Failed(cmds, fault) THEN Raise("TransportError", Attempt(cmds, fault), <<>>)
        ELSE Out("value", <<>>, cmds, <<>>)

AFG3000_set_output_shape(channel, waveform, fault) ==
    IF waveform \notin DOMAIN control THEN Raise("KeyError", <<>>, <<>>)
    ELSE LET cmds == <<Wr("SOURce" \o PyStr(channel) \o ":FUNCtion:SHAPe " \o control[waveform])>>
         IN  IF Failed(cmds, fault) THEN Raise("TransportError", Attempt(cmds, fault), <<>>)
             ELSE Out("None", <<>>, cmds, <<>>)

\* The body shared by the two presets: four setters in a row, the return
\* value of each ignored; an exception of one ends the preset.
AFG3000_preset(channel, waveform, freq, amplitude, offset, fault) ==
    LET r1 == AFG3000_set_output_offset(channel, offset, PresetMinV, PresetMaxV, fault)
        f2 == Later(fault, Len(r1.calls))
        r2 == AFG3000_set_output_shape(channel, waveform, f2)
        c2 == r1.calls \o r2.calls
        f3 == Later(f2, Len(r2.calls))
        r3 == AFG3000_set_output_vpp(channel, amplitude, PresetMinV, PresetMaxV, f3)
        c3 == c2 \o r3.calls
        f4 == Later(f3, Len(r3.calls))
        r4 == AFG3000_set_output_freq(channel, freq, "Hz", f4)
        c4 == c3 \o r4.calls
        raised(r) == r.ret \in {"TransportError", "KeyError"}
    IN  IF raised(r1) THEN Raise(r1.ret, r1.calls, <<>>)
        ELSE IF raised(r2) THEN Raise(r2.ret, c2, <<>>)
        ELSE IF raised(r3) THEN Raise(r3.ret, c3, <<>>)
        ELSE IF raised(r4) THEN Raise(r4.ret, c4, <<>>)
        ELSE Out("None", <<>>, c4, <<>>)

AFG3000_preset_square_wave(channel, freq, amplitude, offset, fault) ==
    AFG3000_preset(channel, "Square", freq, amplitude, offset, fault)

AFG3000_preset_sine_wave(channel, freq, amplitude, offset, fault) ==
    AFG3000_preset(channel, "Sine", freq, amplitude, offset, fault)

\* ------------------------------------------------------ the state machine
ChannelsG == (1 - ChanSlack)..(Len(KEI2230G_init) + ChanSlack)
ChannelsB == (1 - ChanSlack)..(Len(KEI2600B_init) + ChanSlack)
ValidG == 1..Len(KEI2230G_init)
ValidB == 1..Len(KEI2600B_init)
ChannelsA == {1, 2}
Values == 1..MaxVal
\* below every range, inside the default range, inside the presets' range
\* only, above every range
AfgValues == {-1, 2, 3, 6}
Freqs == {1}
OnOff == {"ON", "OFF"}
Waveforms == DOMAIN control \cup {"Noise"}
AfgBounds == {<<DefaultMinV, DefaultMaxV>>, <<PresetMinV, PresetMaxV>>}
\* fault = k: the k-th transport call of the method raises; 0: none does.
\* n is the number of transport calls the method makes when none raises.
Faults(n) == 0..n

\* The record of a call: the object's class, the method, its arguments (the
\* channel is 0 for a method that takes none), the fault the transport had
\* in store, self.safety before the call, and the outcome.
Call(inst, op, channel, args, text, fault, pre, r) ==
    [inst |-> inst, op |-> op, channel |-> channel, args |-> args, text |-> text,
     fault |-> fault, pre |-> pre, ret |-> r.ret, val |-> r.val, calls |-> r.calls]

Classes == {"KEI2230G", "KEI2600B", "AFG3000"}
InitSafety(c) ==
    IF c = "KEI2230G" THEN KEI2230G_init ELSE IF c = "KEI2600B" THEN KEI2600B_init ELSE <<>>

Init ==
    /\ cls \in Classes
    /\ self_safety = InitSafety(cls)
    /\ limited = {}
    /\ last = Call(cls, "__init__", 0, <<>>, "", 0, <<>>, Out("None", <<>>, <<Qu("*IDN?")>>, <<>>))

\* One action per method of the object's class.  `limited` records a
\* limit-setting call that returned normally, under its channel argument.
G_set_output_state ==
    /\ cls = "KEI2230G"
    /\ \E s \in OnOff, f \in Faults(1) :
           LET out == KEI2230G_set_output_state(self_safety, s, f) IN
           /\ self_safety' = out.safety
           /\ limited' = limited
           /\ last' = Call("KEI2230G", "set_output_state", 0, <<>>, s, f, self_safety, out)
           /\ UNCHANGED cls

G_set_voltage ==
    /\ cls = "KEI2230G"
    /\ \E c \in ChannelsG, v \in Values, u \in {"mV", "V"}, f \in Faults(2) :
           LET out == KEI2230G_set_voltage(self_safety, c, v, u, f) IN
           /\ self_safety' = out.safety
           /\ limited' = limited
           /\ last' = Call("KEI2230G", "set_voltage", c, <<v>>, u, f, self_safety, out)
           /\ UNCHANGED cls

G_set_current ==
    /\ cls = "KEI2230G"
    /\ \E c \in ChannelsG, v \in Values, u \in {"mA", "A"}, f \in Faults(2) :
           LET out == KEI2230G_set_current(self_safety, c, v, u, f) IN
           /\ self_safety' = out.safety
           /\ limited' = limited
           /\ last' = Call("KEI2230G", "set_current", c, <<v>>, u, f, self_safety, out)
           /\ UNCHANGED cls

G_set_voltage_limit ==
    /\ cls = "KEI2230G"
    /\ \E c \in ChannelsG, v \in Values, f \in Faults(2) :
           LET out == KEI2230G_set_voltage_limit(self_safety, c, v, f) IN
           /\ self_safety' = out.safety
           /\ limited' = IF out.ret = "None" /\ c \in ValidG
                         THEN limited \cup {c} ELSE limited
           /\ last' = Call("KEI2230G", "set_voltage_limit", c, <<v>>, "", f, self_safety, out)
           /\ UNCHANGED cls

G_get_voltage ==
    /\ cls = "KEI2230G"
    /\ \E c \in ValidG, r \in Replies, f \in Faults(1) :
           LET out == KEI2230G_get_voltage(self_safety, c, r, f) IN
           /\ self_safety' = out.safety
           /\ limited' = limited
           /\ last' = Call("KEI2230G", "get_voltage", c, <<>>, r, f, self_safety, out)
           /\ UNCHANGED cls

G_get_current ==
    /\ cls = "KEI2230G"
    /\ \E c \in ValidG, r \in Replies, f \in Faults(1) :
           LET out == KEI2230G_get_current(self_safety, c, r, f) IN
           /\ self_safety' = out.safety
           /\ limited' = limited
           /\ last' = Call("KEI2230G", "get_current", c, <<>>, r, f, self_safety, out)
           /\ UNCHANGED cls

B_set_output_state ==
    /\ cls = "KEI2600B"
    /\ \E c \in ChannelsB, s \in OnOff, f \in Faults(1) :
           LET out == KEI2600B_set_output_state(self_safety, c, s, f) IN
           /\ self_safety' = out.safety
           /\ limited' = limited
           /\ last' = Call("KEI2600B", "set_output_state", c, <<>>, s, f, self_safety, out)
           /\ UNCHANGED cls

B_set_voltage ==
    /\ cls = "KEI2600B"
    /\ \E c \in ChannelsB, v \in Values, f \in Faults(3) :
           LET out == KEI2600B_set_voltage(self_safety, c, v, f) IN
           /\ self_safety' = out.safety
           /\ limited' = limited
           /\ last' = Call("KEI2600B", "set_voltage", c, <<v>>, "", f, self_safety, out)
           /\ UNCHANGED cls

B_set_current ==
    /\ cls = "KEI2600B"
    /\ \E c \in ChannelsB, v \in Values, f \in Faults(3) :
           LET out == KEI2600B_set_current(self_safety, c, v, f) IN
           /\ self_safety' = out.safety
           /\ limited' = limited
           /\ last' = Call("KEI2600B", "set_current", c, <<v>>, "", f, self_safety, out)
           /\ UNCHANGED cls

B_set_limit ==
    /\ cls = "KEI2600B"
    /\ \E c \in ChannelsB, v \in Values, i \in Values, f \in Faults(2) :
           LET out == KEI2600B_set_limit(self_safety, c, v, i, f) IN
           /\ self_safety' = out.safety
           /\ limited' = IF out.ret = "None" /\ c \in ValidB
                         THEN limited \cup {c} ELSE limited
           /\ last' = Call("KEI2600B", "set_limit", c, <<v, i>>, "", f, self_safety, out)
           /\ UNCHANGED cls

B_get_current_voltage ==
    /\ cls = "KEI2600B"
    /\ \E c \in ChannelsB, i \in Replies, v \in Replies, f \in Faults(3) :
           LET out == KEI2600B_get_current_voltage(self_safety, c, i, v, f) IN
           /\ self_safety' = out.safety
           /\ limited' = limited
           /\ last' = Call("KEI2600B", "get_current_voltage", c, <<>>, i \o "," \o v, f,
                           self_safety, out)
           /\ UNCHANGED cls

B_release_frontPanel ==
    /\ cls = "KEI2600B"
    /\ \E f \in Faults(1) :
           LET out == KEI2600B_release_frontPanel(self_safety, f) IN
           /\ self_safety' = out.safety
           /\ limited' = limited
           /\ last' = Call("KEI2600B", "release_frontPanel", 0, <<>>, "", f, self_safety, out)
           /\ UNCHANGED cls

A_set_output_state ==
    /\ cls = "AFG3000"
    /\ \E c \in ChannelsA, s \in OnOff, f \in Faults(1) :
           LET out == AFG3000_set_output_state(c, s, f) IN
           /\ last' = Call("AFG3000", "set_output_state", c, <<>>, s, f, self_safety, out)
           /\ UNCHANGED <<cls, self_safety, limited>>

A_set_output_vpp ==
    /\ cls = "AFG3000"
    /\ \E c \in ChannelsA, a \in AfgValues, b \in AfgBounds, f \in Faults(1) :
           LET out == AFG3000_set_output_vpp(c, a, b[1], b[2], f) IN
           /\ last' = Call("AFG3000", "set_output_vpp", c, <<a, b[1], b[2]>>, "", f, self_safety, out)
           /\ UNCHANGED <<cls, self_safety, limited>>

A_set_output_offset ==
    /\ cls = "AFG3000"
    /\ \E c \in ChannelsA, o \in AfgValues, b \in AfgBounds, f \in Faults(1) :
           LET out == AFG3000_set_output_offset(c, o, b[1], b[2], f) IN
           /\ last' = Call("AFG3000", "set_output_offset", c, <<o, b[1], b[2]>>, "", f, self_safety, out)
           /\ UNCHANGED <<cls, self_safety, limited>>

A_set_output_freq ==
    /\ cls = "AFG3000"
    /\ \E c \in ChannelsA, q \in Freqs, u \in {"Hz", "kHz", "MHz"}, f \in Faults(1) :
           LET out == AFG3000_set_output_freq(c, q, u, f) IN
           /\ last' = Call("AFG3000", "set_output_freq", c, <<q>>, u, f, self_safety, out)
           /\ UNCHANGED <<cls, self_safety, limited>>

A_set_output_shape ==
    /\ cls = "AFG3000"
    /\ \E c \in ChannelsA, w \in Waveforms, f \in Faults(1) :
           LET out == AFG3000_set_output_shape(c, w, f) IN
           /\ last' = Call("AFG3000", "set_output_shape", c, <<>>, w, f, self_safety, out)
           /\ UNCHANGED <<cls, self_safety, limited>>

A_preset_square_wave ==
    /\ cls = "AFG3000"
    /\ \E c \in ChannelsA, q \in Freqs, a \in AfgValues, o \in AfgValues, f \in Faults(4) :
           LET out == AFG3000_preset_square_wave(c, q, a, o, f) IN
           /\ last' = Call("AFG3000", "preset_square_wave", c, <<q, a, o>>, "", f, self_safety, out)
           /\ UNCHANGED <<cls, self_safety, limited>>

A_preset_sine_wave ==
    /\ cls = "AFG3000"
    /\ \E c \in ChannelsA, q \in Freqs, a \in AfgValues, o \in AfgValues, f \in Faults(4) :
           LET out == AFG3000_preset_sine_wave(c, q, a, o, f) IN
           /\ last' = Call("AFG3000", "preset_sine_wave", c, <<q, a, o>>, "", f, self_safety, out)
           /\ UNCHANGED <<cls, self_safety, limited>>

Next ==
    \/ G_set_output_state \/ G_set_voltage \/ G_set_current \/ G_set_voltage_limit
    \/ G_get_voltage \/ G_get_current
    \/ B_set_output_state \/ B_set_voltage \/ B_set_current \/ B_set_limit
    \/ B_get_current_voltage \/ B_release_frontPanel
    \/ A_set_output_state \/ A_set_output_vpp \/ A_set_output_offset \/ A_set_output_freq
    \/ A_set_output_shape \/ A_preset_square_wave \/ A_preset_sine_wave

Spec == Init /\ [][Next]_vars

\* ------------------------------------------------------------ properties
Interlocked == {"KEI2230G", "KEI2600B"}
Valid(inst) == IF inst = "KEI2230G" THEN ValidG ELSE IF inst = "KEI2600B" THEN ValidB ELSE {}
\* armed[c] of the specification: the flag of channel c, 1-based
Armed(flags, c) == flags[c] = 1

IsSource(l) == l.inst \in Interlocked /\ l.op \in {"set_voltage", "set_current"}
IsLimit(l) ==
    \/ l.inst = "KEI2230G" /\ l.op = "set_voltage_limit"
    \/ l.inst = "KEI2600B" /\ l.op = "set_limit"
IsGated(l) == IsSource(l) \/ IsLimit(l)
Reported(l) == l.ret \in {"IndexError", "KeyError"}

\* C1: on an interlocked wrapper, a source-setting call on a valid channel c
\* for which no limit-setting call has completed is rejected: it returns -1
\* and makes no transport call.
C1_UnlimitedSourceRejected ==
    (IsSource(last) /\ last.channel \in Valid(last.inst)
        /\ last.channel \notin limited)
    => (last.ret = Rejected /\ last.calls = <<>>)

\* C5: a limit-setting call leaves the flag of every channel other than its
\* channel argument as it was.
C5_OtherChannelsUnchanged ==
    IsLimit(last) =>
        \A d \in Valid(last.inst) :
            d # last.channel => self_safety[d] = last.pre[d]

\* C6: a gated operation given an out-of-range channel reports an error,
\* makes no transport call, does not answer from another channel's flag and
\* leaves the flags unchanged.
C6_OutOfRangeReported ==
    (IsGated(last) /\ last.channel \notin Valid(last.inst))
    => (Reported(last) /\ last.calls = <<>> /\ self_safety = last.pre)

\* C7: armed[c] is true exactly when a limit-setting call addressed to
\* channel c has completed successfully since construction.
C7_ArmedIffLimited ==
    \A c \in Valid(cls) : Armed(self_safety, c) <=> c \in limited

\* The source commands the manuals prescribe for channel c.
SourceCommands(l) ==
    LET c == l.channel
        v == ToString(l.args[1])
        smu == IF c = 1 THEN "smua" ELSE "smub"
    IN  IF l.inst = "KEI2230G"
        THEN <<Wr("INSTrument:NSELect " \o ToString(c)),
               Wr((IF l.op = "set_voltage" THEN "SOURce:VOLTage" ELSE "SOURce:CURRent")
                  \o ":LEVel:IMMediate:AMPLitude " \o v \o l.text)>>
        ELSE IF l.op = "set_voltage"
        THEN <<Wr(smu \o ".source.func = " \o smu \o ".OUTPUT_DCVOLTS"),
               Wr(smu \o ".source.levelv = " \o v),
               Wr("display." \o smu \o ".measure.func = display.MEASURE_DCAMPS")>>
        ELSE <<Wr(smu \o ".source.func = " \o smu \o ".OUTPUT_DCAMPS"),
               Wr(smu \o ".source.leveli = " \o v),
               Wr("display." \o smu \o ".measure.func = display.MEASURE_DCVOLTS")>>

\* C2: once a limit-setting call on a valid channel c has completed, a
\* source-setting call on c with a working transport sends the source
\* commands of channel c and returns None, not the rejection sentinel -1.
C2_LimitedSourceSent ==
    (IsSource(last) /\ last.channel \in limited /\ last.fault = 0)
    => (last.ret = "None" /\ last.calls = SourceCommands(last))

C2_Witness ==
    /\ IsSource(last) /\ last.inst = "KEI2600B" /\ last.channel = 1
    /\ 1 \in limited /\ 2 \notin limited
    /\ last.fault = 0 /\ Len(last.calls) = 3

\* The output-state command of the last call.
OutputCommand(l) ==
    IF l.inst = "KEI2230G" THEN Wr("OUTP " \o l.text)
    ELSE IF l.channel = 1 THEN Wr("smua.source.output=smua.OUTPUT_" \o l.text)
    ELSE Wr("smub.source.output=smub.OUTPUT_" \o l.text)

\* C3: set_output_state is not gated: on every valid channel, for ON and OFF,
\* armed or not, it hands its command to the transport, is never rejected,
\* succeeds when the transport works, and leaves every flag unchanged.
C3_OutputStateNotGated ==
    (last.inst \in Interlocked /\ last.op = "set_output_state"
        /\ (last.inst = "KEI2600B" => last.channel \in ValidB))
    => /\ last.ret # Rejected
       /\ last.calls = <<OutputCommand(last)>>
       /\ last.fault = 0 => last.ret = "None"
       /\ self_safety = last.pre

C3_Witness ==
    /\ last.inst = "KEI2600B" /\ last.op = "set_output_state" /\ last.text = "OFF"
    /\ last.channel = 2 /\ self_safety = <<0, 1>> /\ last.ret = "None"

\* C4: once armed[c] is true it stays true under every operation, and a
\* limit-setting call on a channel whose limit was set before leaves every
\* flag as it was.
C4_Step ==
    /\ \A c \in Valid(cls) : Armed(self_safety, c) => Armed(self_safety', c)
    /\ (IsLimit(last') /\ last'.channel \in limited) => self_safety' = self_safety
C4_ArmingPermanent == [][C4_Step]_vars

C4_Witness ==
    /\ IsLimit(last) /\ last.channel \in Valid(last.inst) /\ last.ret = "None"
    /\ Armed(last.pre, last.channel) /\ last.channel \in limited
    /\ self_safety = last.pre

\* C8 as stated: on all three wrappers a source-setting operation sends
\* nothing on a channel for which no limit-setting operation was invoked
\* (AFG3000 has no limit-setting operation, so none ever was).
IsAfgSource(l) ==
    l.inst = "AFG3000"
    /\ l.op \in {"set_output_vpp", "set_output_offset", "preset_square_wave", "preset_sine_wave"}
OutOfRange(l) == l.args[1] * 10 > l.args[3] \/ l.args[1] * 10 < l.args[2]
IsCounted(l) ==
    l.inst \in Interlocked
    /\ l.op \in {"set_voltage", "set_current", "set_voltage_limit", "set_limit",
                 "get_voltage", "get_current", "get_current_voltage"}
IsTransport(k) == k.kind \in {"write", "query"}
NumTransport(l) == Cardinality({i \in 1..Len(l.calls) : IsTransport(l.calls[i])})

\* C9 as stated: each of these operations makes at most two transport calls.
C9_AtMostTwoCalls == IsCounted(last) => NumTransport(last) <= 2

\* C9 amended: each of these operations makes at most three transport calls;
\* only KEI2600B.set_voltage, set_current and get_current_voltage make three.
C9_AtMostThreeCalls ==
    IsCounted(last) =>
        /\ NumTransport(last) <= 3
        /\ NumTransport(last) = 3 =>
              (last.inst = "KEI2600B"
               /\ last.op \in {"set_voltage", "set_current", "get_current_voltage"})

C9_Witness ==
    /\ last.inst = "KEI2600B" /\ last.op = "set_voltage" /\ NumTransport(last) = 3

\* C10: a limit-setting call sets the flag only after both of its commands
\* were written.  If a write fails, the failure reaches the caller, the
\* failing write is the last transport call of the operation (no retry, no
\* later command) and the flags are as before; a flag changes only in a call
\* that wrote both commands and returned normally.
C10_ArmedOnlyAfterWrites ==
    IsLimit(last) =>
        /\ (last.fault \in 1..2 /\ ~Reported(last))
           => /\ last.ret = "TransportError"
              /\ Len(last.calls) = last.fault
              /\ self_safety = last.pre
        /\ self_safety # last.pre
           => (last.ret = "None" /\ last.fault = 0 /\ Len(last.calls) = 2)

C10_Witness ==
    /\ IsLimit(last) /\ last.fault = 2 /\ last.ret = "TransportError"
    /\ last.channel \in Valid(last.inst) /\ ~Armed(last.pre, last.channel)
    /\ Len(last.calls) = 2

====
